---- MODULE Spec2Model ----
(***************************************************************************)
(* Model of the G-code interpreter and timeline builder of src/main.py:    *)
(* parse_and_build_path (one action per branch of its per-line loop) and   *)
(* DrawingWidget.build_timeline.                                           *)
(*                                                                         *)
(* Number representation.  The program computes in binary floating point; *)
(* the model computes in fixed point over the integers:                    *)
(*   - a parsed number (coordinate in mm, feed in mm/min, P in ms) is held *)
(*     in hundredths: the text "X2" is 200, "F600" is 60000;               *)
(*   - a time (pause, dt) is held in milliseconds: MIN_DT = 0.01 s is 10;  *)
(*   - an angle is held in units of 1/5760 turn (1/16 degree), so that     *)
(*     2*pi is TURN = 5760 and pi/2 is 1440;                               *)
(*   - a sine or cosine is held in ten-thousandths.                        *)
(* Optional values (Python None) are sequences: None is << >> and a value  *)
(* v is << v >>.                                                           *)
(*                                                                         *)
(* Specifications.  Spec reads programs over Lines and builds the timeline.*)
(* TokSpec, ArcSpec, UnitSpec, StripSpec and RoundTripSpec run the same    *)
(* actions over other inputs: tokens that are malformed, non-finite or on  *)
(* modal commands; a grid of arcs; a program in inches and its conversion  *)
(* to millimetres, and a program with and without its malformed tokens     *)
(* (two calls of parse_and_build_path each); a move there and back.        *)
(* PlaySpec shows a program and runs the widget's playback under every     *)
(* user action; PlayOnceSpec plays it with no user action and with the     *)
(* timer firing (weak fairness of Step); PaintSpec reads a program with    *)
(* the tool engaged and plays it, for the strokes paintEvent draws.        *)
(***************************************************************************)
EXTENDS Integers, Sequences, FiniteSets, TLC

VARIABLES lines,        \* the lines of the program read so far, in order
          units,        \* "mm" | "inches"                       (main.py:36)
          absolute,     \* G90/G91 coordinate mode               (main.py:35)
          cur_x, cur_y, \* current position                      (main.py:37)
          laser_on,     \* tool state                            (main.py:38)
          current_feed, \* modal feed, optional                  (main.py:39)
          segments,     \* the emitted segments                  (main.py:34)
          seg_line,     \* history: seg_line[k] is the number of the line
                        \* that emitted segments[k]
          pc,           \* "menu": the view has been closed by on_back;
                        \* "parse": in the loop of parse_and_build_path;
                        \* "raised": an exception has left it;
                        \* "view": the DrawingWidget has been constructed
          timeline,     \* DrawingWidget.timeline                (main.py:191)
          last_arc,     \* history: the locals of the latest G02/G03 line
                        \* (ang1, ang2, cw, total_ang, segments_count)
          prev,         \* history: the program and the result of the
                        \* previous call of parse_and_build_path, optional
          index,        \* DrawingWidget.index, from 0          (main.py:192)
          running,      \* DrawingWidget.running                (main.py:197)
          timer,        \* whether the single-shot timer is armed
                        \*                                  (main.py:194-196)
          timeouts      \* history: the timeouts delivered since the latest
                        \* start() that armed the timer

vars == <<lines, units, absolute, cur_x, cur_y, laser_on, current_feed,
          segments, seg_line, pc, timeline, last_arc, prev,
          index, running, timer, timeouts>>

modal == <<units, absolute, cur_x, cur_y, laser_on, current_feed>>

playback == <<index, running, timer, timeouts>>

\* Longest program read.
MaxLines == 3

-----------------------------------------------------------------------------
(* Arithmetic helpers *)

None == << >>
Some(v) == << v >>

Max(a, b) == IF a >= b THEN a ELSE b
Abs(a) == IF a < 0 THEN -a ELSE a

\* a / b rounded to nearest, b > 0.
RDiv(a, b) == (2 * a + b) \div (2 * b)

RECURSIVE ISqrtBetween(_, _, _)
ISqrtBetween(n, lo, hi) ==
    IF hi - lo <= 1 THEN lo
    ELSE LET mid == (lo + hi) \div 2
         IN IF mid * mid <= n THEN ISqrtBetween(n, mid, hi)
                              ELSE ISqrtBetween(n, lo, mid)

\* floor(sqrt(n)), n >= 0.
ISqrt(n) == ISqrtBetween(n, 0, IF n + 1 < 46341 THEN n + 1 ELSE 46341)

\* math.hypot (rounded down to a hundredth).
hypot(dx, dy) == ISqrt(dx * dx + dy * dy)

\* 2*math.pi in angle units.
TURN == 64 * 90

\* sin at k * 5.625 degrees, k = 0..16, in ten-thousandths.
SinTable == <<0, 980, 1951, 2903, 3827, 4714, 5556, 6344, 7071, 7730,
              8315, 8819, 9239, 9569, 9808, 9952, 10000>>

\* sin of u, 0 <= u <= TURN/4: table with linear interpolation.
SinQuarter(u) ==
    LET i == u \div 90
        r == u % 90
    IN IF r = 0 THEN SinTable[i + 1]
       ELSE SinTable[i + 1] + RDiv((SinTable[i + 2] - SinTable[i + 1]) * r, 90)

\* math.sin
sin(a) ==
    LET m == a % TURN
        q == m \div (TURN \div 4)
        r == m % (TURN \div 4)
    IN CASE q = 0 -> SinQuarter(r)
         [] q = 1 -> SinQuarter(TURN \div 4 - r)
         [] q = 2 -> - SinQuarter(r)
         [] OTHER -> - SinQuarter(TURN \div 4 - r)

\* math.cos
cos(a) == sin(a + TURN \div 4)

\* atan(n/d) for 0 <= n <= d, d > 0, in angle units (exact at 0 and at 1).
AtanOctant(n, d) ==
    LET z == RDiv(1000 * n, d)
        w == RDiv(z * (1000 - z), 1000)
        c == 2243 + RDiv(608 * z, 1000)
    IN RDiv(720 * z, 1000) + RDiv(w * c, 10000)

\* math.atan2(y, x), in (-TURN/2, TURN/2]; atan2(0, 0) = 0.
atan2(y, x) ==
    LET ax == Abs(x)
        ay == Abs(y)
        a == IF ax = 0 /\ ay = 0 THEN 0
             ELSE IF ay <= ax THEN AtanOctant(ay, ax)
             ELSE TURN \div 4 - AtanOctant(ax, ay)
    IN CASE x >= 0 /\ y >= 0 -> a
         [] x < 0 /\ y >= 0 -> TURN \div 2 - a
         [] x < 0 /\ y < 0 -> a - TURN \div 2
         [] OTHER -> - a

-----------------------------------------------------------------------------
(* The input: lines of tokens *)

\* The token <letter><n>, n an integer numeral.
T(l, n) == [letter |-> l, ok |-> TRUE, num |-> n * 100, finite |-> TRUE]
\* A token <letter><text> whose text float() rejects.
Bad(l) == [letter |-> l, ok |-> FALSE, num |-> 0, finite |-> TRUE]
\* A token <letter><text> whose text float() accepts as a non-finite value:
\* INF, -INF, NAN, 1E999.  The fixed-point numbers have no such value; the
\* inputs carry these tokens only as the X or Y of a G00/G01 line, where
\* MoveRaises gives their effect.
NonFinite(l) == [letter |-> l, ok |-> TRUE, num |-> 0, finite |-> FALSE]
\* A line: parts[0] and parts[1:].
L(c, ps) == [cmd |-> c, params |-> ps]

Lines ==
    { L("G20", << >>), L("G21", << >>), L("G90", << >>), L("G91", << >>),
      L("M03", << >>), L("M05", << >>), L("G28", << >>),
      L("G92", <<T("X", 1)>>),
      L("G04", <<T("P", 500)>>), L("G04", <<T("P", -500)>>),
      L("G04", <<Bad("P")>>), L("G04", << >>),
      L("G00", <<T("X", 2)>>),
      L("G01", <<T("X", 2), T("Y", 1), T("F", 600)>>),
      L("G01", <<T("Y", 1)>>),
      L("G01", <<T("X", 1), T("F", -600)>>),
      L("G02", <<T("X", 1), T("Y", 1), T("I", 1), T("J", 0)>>),
      L("G03", <<T("Y", -1), T("I", 1), T("F", 0)>>),
      L("G99", <<T("F", 600)>>) }

Vocabulary == {"G00", "G01", "G02", "G03", "G04", "G20", "G21", "G28",
               "G90", "G91", "G92", "M03", "M05"}

-----------------------------------------------------------------------------
(* parse_and_build_path *)

\* Feeds in hundredths of mm/min.
default_cut_feed == 100000
default_rapid_feed == 300000

\* parse_val: float(tok[1:]), None when it raises.
parse_val(tok) == IF tok.ok THEN Some(tok.num) ELSE None

\* Mutant of TimesInch: the centimetre factor 2.54.
TimesInch_Cm(v) == (v * 254) \div 100

\* val * 25.4
TimesInch(v) == (v * 254) \div 10

RECURSIVE get(_, _, _)
\* get(letter) over parts[1:] = ps under the units in force.
get(ps, letter, u) ==
    IF ps = << >> THEN None
    ELSE IF Head(ps).letter = letter
         THEN LET val == parse_val(Head(ps))
              IN IF val = None THEN None
                 ELSE IF u = "inches" THEN Some(TimesInch(val[1]))
                 ELSE val
         ELSE get(Tail(ps), letter, u)

\* Whether get(letter) over ps yields a non-finite value: the first token
\* with the letter is one.
NonFiniteAt(ps, letter) ==
    \E i \in 1..Len(ps) :
        /\ ps[i].letter = letter /\ ps[i].ok /\ ~ps[i].finite
        /\ \A j \in 1..(i - 1) : ps[j].letter # letter

\* "get(l) or 0.0"
OrZero(opt) == IF opt = None \/ opt = Some(0) THEN 0 ELSE opt[1]

\* Lines 108-110: the modal feed after the line's F, if any.
FeedAfter(ps, u, feed) ==
    LET fval == get(ps, "F", u)
    IN IF fval # None THEN fval ELSE feed

\* Mutant of Target: a given value is taken as absolute in both modes.
Target_Absolute(opt, cur, abs) ==
    IF opt = None THEN (IF ~abs THEN cur + cur ELSE cur) ELSE opt[1]

\* Lines 114-119 and 142-149: the resolved target on one axis.
Target(opt, cur, abs) ==
    LET t == IF opt = None THEN cur ELSE opt[1]
    IN IF ~abs THEN cur + t ELSE t

\* Lines 120-125 and 150: the feed given to a segment.
ChosenFeed(feed, rapid) ==
    IF feed # None THEN feed
    ELSE IF rapid THEN Some(default_rapid_feed) ELSE Some(default_cut_feed)

\* Mutant of LinearPoints: the distance rounded up to a whole step.
LinearPoints_Ceil(x0, y0, tx, ty) ==
    LET dist == hypot(tx - x0, ty - y0)
        steps == Max(1, (dist + 99) \div 100)
    IN [i \in 1..steps |->
          <<x0 + RDiv((tx - x0) * i, steps), y0 + RDiv((ty - y0) * i, steps)>>]

\* Lines 126-133: the points after the start of a straight move.
LinearPoints(x0, y0, tx, ty) ==
    LET dist == hypot(tx - x0, ty - y0)
        steps == Max(1, dist \div 100)
    IN [i \in 1..steps |->
          <<x0 + RDiv((tx - x0) * i, steps), y0 + RDiv((ty - y0) * i, steps)>>]

\* Mutant of TotalAng: strict comparisons, so that equal angles sweep nothing.
TotalAng_Strict(ang1, ang2, cw) ==
    IF cw THEN (IF ang2 > ang1 THEN ang1 - (ang2 - TURN) ELSE ang1 - ang2)
    ELSE (IF ang2 < ang1 THEN (ang2 + TURN) - ang1 ELSE ang2 - ang1)

\* Lines 157-164: the swept angle.
TotalAng(ang1, ang2, cw) ==
    IF cw THEN (IF ang2 >= ang1 THEN ang1 - (ang2 - TURN) ELSE ang1 - ang2)
    ELSE (IF ang2 <= ang1 THEN (ang2 + TURN) - ang1 ELSE ang2 - ang1)

\* Line 165 in exact arithmetic: max(8, int(abs(total_ang) / (2*math.pi) * 64)).
SegmentsCount(total_ang) == Max(8, (Abs(total_ang) * 64) \div TURN)

\* Line 165 as the program computes it, in binary floating point.  atan2,
\* the subtraction and the division by 2*math.pi each round, so where the
\* quotient is a whole number q in exact arithmetic the computed one is q or
\* falls just below it, and int() then yields q or q - 1 (G03 I1 J-1, a full
\* circle, gives 63; G03 Y1 I1, a sweep of 7*pi/4, gives 55).  Which of the
\* two depends on the rounding of the operands: both are outcomes.
SegmentsCountOutcomes(total_ang) ==
    LET q == Abs(total_ang) * 64
    IN {SegmentsCount(total_ang)} \cup
       (IF q > 0 /\ q % TURN = 0 THEN {Max(8, q \div TURN - 1)} ELSE {})

\* Lines 151-164: the centre, the radius and the angles of an arc.
ArcLocals(x0, y0, tx, ty, ioff, joff, cw) ==
    LET cx == x0 + ioff
        cy == y0 + joff
        ang1 == atan2(y0 - cy, x0 - cx)
        ang2 == atan2(ty - cy, tx - cx)
    IN [cx |-> cx, cy |-> cy, r |-> hypot(x0 - cx, y0 - cy),
        ang1 |-> ang1, ang2 |-> ang2, cw |-> cw,
        total_ang |-> TotalAng(ang1, ang2, cw)]

\* Lines 166-172: the points after the start of an arc.
ArcPoints(a, segments_count) ==
    [k \in 1..segments_count |->
        LET d == RDiv(k * a.total_ang, segments_count)
            ang == IF a.cw THEN a.ang1 - d ELSE a.ang1 + d
        IN <<a.cx + RDiv(a.r * cos(ang), 10000),
             a.cy + RDiv(a.r * sin(ang), 10000)>>]

MoveSeg(pts, laser, feed, rapid) ==
    [type |-> "move", points |-> pts, pause |-> 0, laser |-> laser,
     feedrate |-> feed, rapid |-> rapid]

PauseSeg(p, laser) ==
    [type |-> "pause", points |-> << >>, pause |-> p, laser |-> laser]

Reading(line) ==
    /\ pc = "parse"
    /\ Len(lines) < MaxLines
    /\ lines' = Append(lines, line)
    /\ UNCHANGED <<pc, timeline, prev, playback>>

Emit(seg) ==
    /\ segments' = Append(segments, seg)
    /\ seg_line' = Append(seg_line, Len(lines) + 1)

\* Lines 65-70: G20 / G21
Units(line) ==
    /\ line.cmd \in {"G20", "G21"}
    /\ Reading(line)
    /\ UNCHANGED last_arc
    /\ units' = IF line.cmd = "G20" THEN "inches" ELSE "mm"
    /\ UNCHANGED <<absolute, cur_x, cur_y, laser_on, current_feed,
                   segments, seg_line>>

\* Lines 72-77: G90 / G91
Mode(line) ==
    /\ line.cmd \in {"G90", "G91"}
    /\ Reading(line)
    /\ UNCHANGED last_arc
    /\ absolute' = (line.cmd = "G90")
    /\ UNCHANGED <<units, cur_x, cur_y, laser_on, current_feed,
                   segments, seg_line>>

\* Mutant of SetPosition: in relative mode the value is added.
SetPosition_Relative(line) ==
    /\ line.cmd = "G92"
    /\ Reading(line)
    /\ UNCHANGED last_arc
    /\ LET gx == get(line.params, "X", units)
           gy == get(line.params, "Y", units)
       IN /\ cur_x' = Target(gx, cur_x, absolute)
          /\ cur_y' = Target(gy, cur_y, absolute)
    /\ UNCHANGED <<units, absolute, laser_on, current_feed, segments, seg_line>>

\* Lines 79-85: G92
SetPosition(line) ==
    /\ line.cmd = "G92"
    /\ Reading(line)
    /\ UNCHANGED last_arc
    /\ LET gx == get(line.params, "X", units)
           gy == get(line.params, "Y", units)
       IN /\ cur_x' = IF gx # None THEN gx[1] ELSE cur_x
          /\ cur_y' = IF gy # None THEN gy[1] ELSE cur_y
    /\ UNCHANGED <<units, absolute, laser_on, current_feed, segments, seg_line>>

\* Lines 87-92: G28
Home(line) ==
    /\ line.cmd = "G28"
    /\ Reading(line)
    /\ UNCHANGED last_arc
    /\ Emit(MoveSeg(<<<<cur_x, cur_y>>, <<0, 0>>>>, laser_on, current_feed, TRUE))
    /\ cur_x' = 0
    /\ cur_y' = 0
    /\ UNCHANGED <<units, absolute, laser_on, current_feed>>

\* Mutant of Laser: M03 and M05 exchanged.
Laser_Inverted(line) ==
    /\ line.cmd \in {"M03", "M05"}
    /\ Reading(line)
    /\ UNCHANGED last_arc
    /\ laser_on' = (line.cmd = "M05")
    /\ UNCHANGED <<units, absolute, cur_x, cur_y, current_feed,
                   segments, seg_line>>

\* Lines 94-99: M03 / M05
Laser(line) ==
    /\ line.cmd \in {"M03", "M05"}
    /\ Reading(line)
    /\ UNCHANGED last_arc
    /\ laser_on' = (line.cmd = "M03")
    /\ UNCHANGED <<units, absolute, cur_x, cur_y, current_feed,
                   segments, seg_line>>

\* Line 103: float(p)/1000.0 seconds, in ms.
PauseOf(p) == p \div 100

\* Mutant of Pause: a G04 without a P value emits nothing.
Pause_Skip(line) ==
    /\ line.cmd = "G04"
    /\ Reading(line)
    /\ UNCHANGED last_arc
    /\ LET p == get(line.params, "P", units)
       IN IF p = None THEN UNCHANGED <<segments, seg_line>>
          ELSE Emit(PauseSeg(PauseOf(p[1]), laser_on))
    /\ UNCHANGED modal

\* Lines 101-105: G04
Pause(line) ==
    /\ line.cmd = "G04"
    /\ Reading(line)
    /\ UNCHANGED last_arc
    /\ LET p == OrZero(get(line.params, "P", units))
       IN Emit(PauseSeg(PauseOf(p), laser_on))
    /\ UNCHANGED modal

\* Lines 108-127: G00 / G01 with a non-finite X or Y.  The target on that
\* axis is inf or nan in either mode, dist is inf or nan, and int(dist / 1.0)
\* raises OverflowError or ValueError out of parse_and_build_path.
MoveRaises(line) ==
    /\ line.cmd \in {"G00", "G01"}
    /\ pc = "parse"
    /\ Len(lines) < MaxLines
    /\ NonFiniteAt(line.params, "X") \/ NonFiniteAt(line.params, "Y")
    /\ lines' = Append(lines, line)
    /\ current_feed' = FeedAfter(line.params, units, current_feed)
    /\ pc' = "raised"
    /\ UNCHANGED <<units, absolute, cur_x, cur_y, laser_on, segments, seg_line,
                   timeline, last_arc, prev, playback>>

\* Lines 108-138: G00 / G01
Move(line) ==
    /\ line.cmd \in {"G00", "G01"}
    /\ ~NonFiniteAt(line.params, "X") /\ ~NonFiniteAt(line.params, "Y")
    /\ Reading(line)
    /\ UNCHANGED last_arc
    /\ LET feed == FeedAfter(line.params, units, current_feed)
           tx == Target(get(line.params, "X", units), cur_x, absolute)
           ty == Target(get(line.params, "Y", units), cur_y, absolute)
           rapid == (line.cmd = "G00")
           pts == LinearPoints(cur_x, cur_y, tx, ty)
       IN /\ current_feed' = feed
          /\ Emit(MoveSeg(<<<<cur_x, cur_y>>>> \o pts, laser_on,
                          ChosenFeed(feed, rapid), rapid))
          /\ cur_x' = tx
          /\ cur_y' = ty
    /\ UNCHANGED <<units, absolute, laser_on>>

\* Lines 108-110, 141-177: G02 / G03
Arc(line) ==
    /\ line.cmd \in {"G02", "G03"}
    /\ Reading(line)
    /\ LET feed == FeedAfter(line.params, units, current_feed)
           ioff == OrZero(get(line.params, "I", units))
           joff == OrZero(get(line.params, "J", units))
           tx == Target(get(line.params, "X", units), cur_x, absolute)
           ty == Target(get(line.params, "Y", units), cur_y, absolute)
           a == ArcLocals(cur_x, cur_y, tx, ty, ioff, joff, line.cmd = "G02")
       IN \E segments_count \in SegmentsCountOutcomes(a.total_ang) :
             /\ current_feed' = feed
             /\ Emit(MoveSeg(<<<<cur_x, cur_y>>>> \o ArcPoints(a, segments_count),
                             laser_on, ChosenFeed(feed, FALSE), FALSE))
             /\ last_arc' = Some([ang1 |-> a.ang1, ang2 |-> a.ang2, cw |-> a.cw,
                                  total_ang |-> a.total_ang,
                                  segments_count |-> segments_count])
             /\ cur_x' = tx
             /\ cur_y' = ty
    /\ UNCHANGED <<units, absolute, laser_on>>

\* A command outside the vocabulary: every `if cmd ==` fails, lines 108-110
\* still run.
Unknown(line) ==
    /\ line.cmd \notin Vocabulary
    /\ Reading(line)
    /\ UNCHANGED last_arc
    /\ current_feed' = FeedAfter(line.params, units, current_feed)
    /\ UNCHANGED <<units, absolute, cur_x, cur_y, laser_on, segments, seg_line>>

-----------------------------------------------------------------------------
(* DrawingWidget.build_timeline *)

\* 0.01 s, in ms.
MIN_DT == 10

Entry(x, y, draw, dt) == [x |-> x, y |-> y, draw |-> draw, dt |-> dt]

\* Lines 224-228: max(0.001, feed / 60.0), in thousandths of mm/s.
SpeedMmS(feed, rapid) ==
    LET f == IF feed = None
             THEN (IF rapid THEN 300000 ELSE 100000)
             ELSE feed[1]
    IN Max(1, f \div 6)

\* Mutant of PointDt: no MIN_DT floor on a step's duration.
PointDt_NoFloor(pts, i, speed) ==
    IF i < Len(pts)
    THEN LET dist == hypot(pts[i + 1][1] - pts[i][1], pts[i + 1][2] - pts[i][2])
         IN (dist * 10000) \div speed
    ELSE MIN_DT

\* Lines 231-236: the dt of point i of pts.
PointDt(pts, i, speed) ==
    IF i < Len(pts)
    THEN LET dist == hypot(pts[i + 1][1] - pts[i][1], pts[i + 1][2] - pts[i][2])
         IN Max(MIN_DT, (dist * 10000) \div speed)
    ELSE MIN_DT

\* Mutant of MoveEntries: the leading pre-move point is left out.
MoveEntries_SkipFirst(seg) ==
    LET speed == SpeedMmS(seg.feedrate, seg.rapid)
    IN [i \in 1..(Len(seg.points) - 1) |->
          Entry(seg.points[i + 1][1], seg.points[i + 1][2], seg.laser,
                PointDt(seg.points, i + 1, speed))]

\* Lines 222-237: the entries of a move segment.
MoveEntries(seg) ==
    LET speed == SpeedMmS(seg.feedrate, seg.rapid)
    IN [i \in 1..Len(seg.points) |->
          Entry(seg.points[i][1], seg.points[i][2], seg.laser,
                PointDt(seg.points, i, speed))]

\* Mutant of PauseEntries: the draw flag is the pause segment's tool state.
PauseEntries_SegLaser(seg, tl) ==
    IF tl # << >>
    THEN LET last == tl[Len(tl)]
         IN <<Entry(last.x, last.y, seg.laser, Max(MIN_DT, seg.pause))>>
    ELSE << >>

\* Lines 238-241: the entries a pause adds to the timeline tl.
PauseEntries(seg, tl) ==
    IF tl # << >>
    THEN LET last == tl[Len(tl)]
         IN <<Entry(last.x, last.y, last.draw, Max(MIN_DT, seg.pause))>>
    ELSE << >>

RECURSIVE Flatten(_, _)
\* Lines 221-241: the loop over the segments, from timeline tl.
Flatten(segs, tl) ==
    IF segs = << >> THEN tl
    ELSE LET seg == Head(segs)
         IN Flatten(Tail(segs),
                    tl \o (IF seg.type = "move" THEN MoveEntries(seg)
                           ELSE PauseEntries(seg, tl)))

\* Lines 242-243: the last entry's dt is 0.
Terminal(tl) ==
    IF tl # << >> THEN [tl EXCEPT ![Len(tl)].dt = 0] ELSE tl

build_timeline(segs) == Terminal(Flatten(segs, << >>))

-----------------------------------------------------------------------------
(* DrawingWidget playback.  The widget's playback fields as a record w;
   tl is its timeline. *)

Widget == [index |-> index, running |-> running, timer |-> timer]

\* Mutant of start: running is set but the timer is not armed.
start_NoTimer(w, tl) ==
    IF tl = << >> THEN w
    ELSE [index |-> 0, running |-> TRUE, timer |-> FALSE]

\* Lines 246-253: start()
start(w, tl) ==
    IF tl = << >> THEN w
    ELSE [index |-> 0, running |-> TRUE, timer |-> TRUE]

\* Mutant of stop: the timer is left armed.
stop_KeepTimer(w) == [w EXCEPT !.running = FALSE]

\* Lines 255-257: stop()
stop(w) == [w EXCEPT !.timer = FALSE, !.running = FALSE]

\* Lines 259-262: reset()
reset(w) == [stop(w) EXCEPT !.index = 0]

\* Mutant of step: the index advances without the test against the length.
step_Unbounded(w, tl) == [w EXCEPT !.index = @ + 1, !.timer = TRUE]

\* Lines 264-274: step(), run by the timer's timeout; the timer is
\* single-shot, so the timeout itself leaves it unarmed.
step(w, tl) ==
    IF w.index < Len(tl) - 1
    THEN [w EXCEPT !.index = @ + 1, !.timer = TRUE]
    ELSE stop([w EXCEPT !.timer = FALSE])

\* The widget's fields become those of w.
Becomes(w) ==
    /\ index' = w.index
    /\ running' = w.running
    /\ timer' = w.timer

\* on_laser: parse_and_build_path returns, DrawingWidget.__init__ builds the
\* timeline of its segments (index 0, not running), and show() delivers the
\* first showEvent, which calls start().
ShowView ==
    /\ pc = "parse"
    /\ pc' = "view"
    /\ timeline' = build_timeline(segments)
    /\ Becomes(start([index |-> 0, running |-> FALSE, timer |-> FALSE],
                     timeline'))
    /\ timeouts' = 0
    /\ UNCHANGED <<lines, units, absolute, cur_x, cur_y, laser_on,
                   current_feed, segments, seg_line, last_arc, prev>>

\* Lines 305-311: the strokes paintEvent draws, each named by the place in
\* the timeline of its first end: between entries i and i + 1, up to the
\* playback index, where both have draw set.
Strokes ==
    {i \in 1..index : timeline[i].draw /\ timeline[i + 1].draw}

\* Lines 536-538: a later showEvent (the window is shown again).
ShowEvent ==
    /\ pc = "view"
    /\ Becomes(start(Widget, timeline))
    /\ timeouts' = IF timeline = << >> THEN timeouts ELSE 0
    /\ UNCHANGED <<lines, modal, segments, seg_line, pc, timeline, last_arc, prev>>

\* Lines 518-520: on_restart
OnRestart ==
    /\ pc = "view"
    /\ Becomes(start(reset(Widget), timeline))
    /\ timeouts' = IF timeline = << >> THEN timeouts ELSE 0
    /\ UNCHANGED <<lines, modal, segments, seg_line, pc, timeline, last_arc, prev>>

\* Lines 522-534: on_back stops the playback and closes the window.
OnBack ==
    /\ pc = "view"
    /\ pc' = "menu"
    /\ Becomes(stop(Widget))
    /\ UNCHANGED <<lines, modal, segments, seg_line, timeline, last_arc, prev,
                   timeouts>>

\* DrawingWidget.stop() called on its own.
Stop ==
    /\ pc = "view"
    /\ Becomes(stop(Widget))
    /\ UNCHANGED <<lines, modal, segments, seg_line, pc, timeline, last_arc,
                   prev, timeouts>>

\* DrawingWidget.reset() called on its own.
Reset ==
    /\ pc = "view"
    /\ Becomes(reset(Widget))
    /\ UNCHANGED <<lines, modal, segments, seg_line, pc, timeline, last_arc,
                   prev, timeouts>>

\* The armed timer fires: timeout runs step().
Step ==
    /\ pc = "view"
    /\ timer
    /\ Becomes(step(Widget, timeline))
    /\ timeouts' = timeouts + 1
    /\ UNCHANGED <<lines, modal, segments, seg_line, pc, timeline, last_arc, prev>>

-----------------------------------------------------------------------------

Init ==
    /\ lines = << >>
    /\ units = "mm"
    /\ absolute = TRUE
    /\ cur_x = 0
    /\ cur_y = 0
    /\ laser_on = FALSE
    /\ current_feed = None
    /\ segments = << >>
    /\ seg_line = << >>
    /\ pc = "parse"
    /\ timeline = << >>
    /\ last_arc = None
    /\ prev = None
    /\ index = 0
    /\ running = FALSE
    /\ timer = FALSE
    /\ timeouts = 0

Next ==
    \/ \E line \in Lines : Units(line)
    \/ \E line \in Lines : Mode(line)
    \/ \E line \in Lines : SetPosition(line)
    \/ \E line \in Lines : Home(line)
    \/ \E line \in Lines : Laser(line)
    \/ \E line \in Lines : Pause(line)
    \/ \E line \in Lines : Move(line)
    \/ \E line \in Lines : Arc(line)
    \/ \E line \in Lines : Unknown(line)
    \/ ShowView

Spec == Init /\ [][Next]_vars

-----------------------------------------------------------------------------
(* Playback: short programs, their view, and every interleaving of the
   widget's operations and the timer. *)

PlayLines ==
    { L("M03", << >>), L("G92", <<T("X", 1)>>), L("G28", << >>),
      L("G04", <<T("P", 500)>>),
      L("G00", <<T("Y", 1)>>), L("G01", <<T("X", 2)>>) }

PlayParse ==
    \/ \E line \in PlayLines : SetPosition(line)
    \/ \E line \in PlayLines : Home(line)
    \/ \E line \in PlayLines : Laser(line)
    \/ \E line \in PlayLines : Pause(line)
    \/ \E line \in PlayLines : Move(line)
    \/ ShowView

PlayNext ==
    \/ PlayParse
    \/ ShowEvent
    \/ OnRestart
    \/ OnBack
    \/ Stop
    \/ Reset
    \/ Step

PlaySpec == Init /\ [][PlayNext]_vars

\* The view is shown and left alone: the only steps after on_laser are the
\* timer's, and an armed timer fires.
PlayOnceNext == PlayParse \/ Step

PlayOnceSpec == Init /\ [][PlayOnceNext]_vars /\ WF_vars(Step)

-----------------------------------------------------------------------------
(* Painting: programs read with the tool engaged, shown and played. *)

\* The state a program prefix M03 leaves; the history starts after it.
PaintInit ==
    /\ lines = << >>
    /\ units = "mm"
    /\ absolute = TRUE
    /\ cur_x = 0
    /\ cur_y = 0
    /\ laser_on = TRUE
    /\ current_feed = None
    /\ segments = << >>
    /\ seg_line = << >>
    /\ pc = "parse"
    /\ timeline = << >>
    /\ last_arc = None
    /\ prev = None
    /\ index = 0
    /\ running = FALSE
    /\ timer = FALSE
    /\ timeouts = 0

PaintLines ==
    { L("M05", << >>), L("G92", <<T("X", 1)>>), L("G28", << >>),
      L("G04", <<T("P", 500)>>),
      L("G00", <<T("Y", 1)>>), L("G01", <<T("X", 2)>>),
      L("G03", <<T("Y", -1), T("I", 1)>>) }

PaintNext ==
    \/ \E line \in PaintLines : SetPosition(line)
    \/ \E line \in PaintLines : Home(line)
    \/ \E line \in PaintLines : Laser(line)
    \/ \E line \in PaintLines : Pause(line)
    \/ \E line \in PaintLines : Move(line)
    \/ \E line \in PaintLines : Arc(line)
    \/ ShowView
    \/ Step

PaintSpec == PaintInit /\ [][PaintNext]_vars

-----------------------------------------------------------------------------
(* Tokens: programs with malformed and non-finite values, repeated letters
   and F tokens on modal commands. *)

TokLines ==
    { L("G20", <<T("F", 600)>>), L("G21", <<T("F", 600)>>),
      L("G90", <<T("F", 600)>>), L("G91", <<T("F", 300)>>),
      L("M03", <<T("F", 600)>>), L("M05", <<T("X", 1), T("F", 300)>>),
      L("G92", <<T("X", 1), T("F", 600)>>), L("G92", <<T("Y", 2)>>),
      L("G92", <<T("X", -1), T("Y", 1)>>),
      L("G01", <<T("X", 1), T("Y", 1)>>),
      L("G00", <<T("X", -1), T("F", 300)>>),
      L("G00", <<NonFinite("X")>>),
      L("G01", <<T("X", 1), NonFinite("Y")>>),
      L("G01", <<Bad("X"), NonFinite("X"), T("Y", 2)>>) }

TokNext ==
    \/ \E line \in TokLines : Units(line)
    \/ \E line \in TokLines : Mode(line)
    \/ \E line \in TokLines : SetPosition(line)
    \/ \E line \in TokLines : Laser(line)
    \/ \E line \in TokLines : Move(line)
    \/ \E line \in TokLines : MoveRaises(line)

TokSpec == Init /\ [][TokNext]_vars

-----------------------------------------------------------------------------
(* Arcs: programs of G02/G03 lines with every combination of small end
   points and centre offsets, so that start and end angles range over the
   directions of the grid. *)

\* Longest program of arcs read.
MaxArcs == 1

ArcLines ==
    { L(c, <<T("X", x), T("Y", y), T("I", i), T("J", j)>>) :
        c \in {"G02", "G03"}, x \in {-1, 0, 2}, y \in -1..1,
        i \in -1..1, j \in -1..1 }

ArcNext == \E line \in ArcLines : Len(lines) < MaxArcs /\ Arc(line)

ArcSpec == Init /\ [][ArcNext]_vars

-----------------------------------------------------------------------------
(* Two calls: on_laser calls parse_and_build_path each time it is clicked,
   on whatever gcode.txt then holds.  The second call starts from the
   initial state of lines 34-41; the history keeps the first call's program
   and result. *)

Reparse ==
    /\ pc = "parse"
    /\ prev = None
    /\ lines # << >>
    /\ prev' = Some([lines |-> lines, segments |-> segments, modal |-> modal])
    /\ lines' = << >>
    /\ units' = "mm"
    /\ absolute' = TRUE
    /\ cur_x' = 0
    /\ cur_y' = 0
    /\ laser_on' = FALSE
    /\ current_feed' = None
    /\ segments' = << >>
    /\ seg_line' = << >>
    /\ last_arc' = None
    /\ UNCHANGED <<pc, timeline, playback>>

-----------------------------------------------------------------------------
(* Units: a program in inches, then the same program in millimetres *)

\* The line with every X/Y/I/J value v replaced by 25.4 * v, and G20 by G21.
ToMm(line) ==
    [cmd |-> IF line.cmd = "G20" THEN "G21" ELSE line.cmd,
     params |-> [i \in 1..Len(line.params) |->
                   IF line.params[i].letter \in {"X", "Y", "I", "J"}
                   THEN [line.params[i] EXCEPT !.num = (@ * 254) \div 10]
                   ELSE line.params[i]]]

UnitLines ==
    { L("G91", << >>), L("G90", << >>),
      L("G92", <<T("X", 1), T("Y", -1)>>), L("G92", <<T("X", 2)>>),
      L("G01", <<T("X", 1), T("Y", 1), T("F", 600)>>),
      L("G00", <<T("X", -1)>>), L("G01", <<T("Y", 2)>>),
      L("G02", <<T("X", 1), T("Y", 1), T("I", 1), T("J", 0)>>),
      L("G03", <<T("X", -1), T("Y", -3), T("I", 0), T("J", -2)>>),
      L("G03", <<T("I", 1), T("J", -1)>>) }

\* The lines the next read can yield: the first call reads G20 and then any
\* lines of UnitLines; the second call reads the first call's program
\* converted to millimetres, line by line.
UnitInput ==
    IF prev = None
    THEN (IF lines = << >> THEN {L("G20", << >>)} ELSE UnitLines)
    ELSE (IF Len(lines) < Len(prev[1].lines)
          THEN {ToMm(prev[1].lines[Len(lines) + 1])} ELSE {})

UnitNext ==
    \/ \E line \in UnitInput : Units(line)
    \/ \E line \in UnitInput : Mode(line)
    \/ \E line \in UnitInput : SetPosition(line)
    \/ \E line \in UnitInput : Move(line)
    \/ \E line \in UnitInput : Arc(line)
    \/ Reparse

UnitSpec == Init /\ [][UnitNext]_vars

-----------------------------------------------------------------------------
(* Malformed tokens: a program with tokens float() rejects, then the same
   program without them *)

\* The line without its malformed tokens.
Strip(line) ==
    [cmd |-> line.cmd, params |-> SelectSeq(line.params, LAMBDA t : t.ok)]

StripLines ==
    { L("G91", << >>),
      L("G92", <<Bad("X"), T("Y", 1)>>),
      L("G04", <<Bad("P")>>),
      L("G00", <<T("X", 2), T("Y", 1)>>),
      L("G01", <<Bad("X"), T("Y", 2)>>),
      L("G01", <<T("X", 1), T("F", 600), Bad("F")>>),
      L("G01", <<T("X", 1), Bad("F"), T("F", 500)>>),
      L("G01", <<Bad("Y"), T("X", -1), T("Y", 1)>>) }

\* The lines the next read can yield: the first call reads any lines of
\* StripLines; the second call reads the first call's program stripped,
\* line by line.
StripInput ==
    IF prev = None THEN StripLines
    ELSE (IF Len(lines) < Len(prev[1].lines)
          THEN {Strip(prev[1].lines[Len(lines) + 1])} ELSE {})

StripNext ==
    \/ \E line \in StripInput : Mode(line)
    \/ \E line \in StripInput : SetPosition(line)
    \/ \E line \in StripInput : Pause(line)
    \/ \E line \in StripInput : Move(line)
    \/ Reparse

StripSpec == Init /\ [][StripNext]_vars

-----------------------------------------------------------------------------
(* There and back: from a position P in absolute mode, a move to a target,
   G91, and a second move. *)

\* Largest coordinate of P.
MaxCoord == 1

\* The state a program prefix G92 X<px> Y<py> leaves; the history starts
\* after it.
RoundTripInit ==
    /\ lines = << >>
    /\ units = "mm"
    /\ absolute = TRUE
    /\ cur_x \in {100 * c : c \in -MaxCoord..MaxCoord}
    /\ cur_y \in {100 * c : c \in -MaxCoord..MaxCoord}
    /\ laser_on = FALSE
    /\ current_feed = None
    /\ segments = << >>
    /\ seg_line = << >>
    /\ pc = "parse"
    /\ timeline = << >>
    /\ last_arc = None
    /\ prev = None
    /\ index = 0
    /\ running = FALSE
    /\ timer = FALSE
    /\ timeouts = 0

\* Moves to the targets with coordinates -2 and 1.
TargetMoves ==
    { L(c, <<T("X", x), T("Y", y)>>) :
        c \in {"G00", "G01"}, x \in {-2, 1}, y \in {-2, 1} }

\* Moves by every displacement that leads from such a target to a P, and
\* by others.
BackMoves ==
    { L("G01", <<T("X", x), T("Y", y)>>) :
        x \in -(MaxCoord + 2)..(MaxCoord + 2), y \in -(MaxCoord + 2)..(MaxCoord + 2) }

RoundTripNext ==
    \/ /\ lines = << >>
       /\ \E line \in TargetMoves : Move(line)
    \/ /\ Len(lines) = 1
       /\ Mode(L("G91", << >>))
    \/ /\ Len(lines) = 2
       /\ \E line \in BackMoves : Move(line)

RoundTripSpec == RoundTripInit /\ [][RoundTripNext]_vars

-----------------------------------------------------------------------------
(* Properties.  Helpers that read the history (lines, seg_line). *)

\* The first token of the line with the given letter, as a set (empty when
\* the line has none).
FirstTok(line, letter) ==
    LET idx == {i \in 1..Len(line.params) : line.params[i].letter = letter}
    IN IF idx = {} THEN {}
       ELSE {line.params[CHOOSE i \in idx : \A j \in idx : i <= j]}

\* Two points no further apart than the fixed-point rounding (0.02 mm).
Near(p, q) == Abs(p[1] - q[1]) <= 2 /\ Abs(p[2] - q[2]) <= 2

RECURSIVE NumEntries(_)
\* The number of timeline entries the segments stand for: every point of a
\* move, and one entry per pause that follows at least one entry.
NumEntries(segs) ==
    IF segs = << >> THEN 0
    ELSE LET n == Len(segs)
             before == NumEntries(SubSeq(segs, 1, n - 1))
         IN IF segs[n].type = "move" THEN before + Len(segs[n].points)
            ELSE IF before > 0 THEN before + 1 ELSE 0

RECURSIVE FlatPositions(_)
\* The positions of the flattening, built from the last segment backwards.
FlatPositions(segs) ==
    IF segs = << >> THEN << >>
    ELSE LET n == Len(segs)
             before == FlatPositions(SubSeq(segs, 1, n - 1))
         IN IF segs[n].type = "move" THEN before \o segs[n].points
            ELSE IF before # << >> THEN Append(before, before[Len(before)])
            ELSE before

\* Whether the tool is on before line n: the most recent M03/M05 among
\* lines 1..n-1 is an M03.
ToolOnBefore(n) ==
    LET tool == {i \in 1..(n - 1) : lines[i].cmd \in {"M03", "M05"}}
    IN /\ tool # {}
       /\ lines[CHOOSE i \in tool : \A j \in tool : j <= i].cmd = "M03"

\* C1: a line whose command is outside the vocabulary leaves units, mode,
\* position, modal feed, tool state and the segments as they were.
C1_UnknownIsNoOp ==
    [][(\E line \in Lines : Unknown(line)) => UNCHANGED <<modal, segments>>]_vars

\* C2: in relative mode a G00/G01/G02/G03 line that omits X (or Y) does not
\* displace that axis.
C2_RelativeAbsentAxisStays ==
    [][\A line \in Lines :
          ((Move(line) \/ Arc(line)) /\ ~absolute) =>
              /\ (FirstTok(line, "X") = {} => cur_x' = cur_x)
              /\ (FirstTok(line, "Y") = {} => cur_y' = cur_y)]_vars

\* C3: every move segment carries a feed rate (never None).
C3_MoveFeedResolved ==
    \A k \in 1..Len(segments) :
        segments[k].type = "move" => segments[k].feedrate # None

\* C4: the segment a G00/G01/G02/G03/G28 line emits starts at the position
\* before the line and ends at the position after it (the resolved target).
C4_SegmentEndsAtTarget ==
    [][\A line \in Lines :
          (Move(line) \/ Arc(line) \/ Home(line)) =>
              LET seg == segments'[Len(segments')]
              IN /\ seg.points[1] = <<cur_x, cur_y>>
                 /\ Near(seg.points[Len(seg.points)], <<cur_x', cur_y'>>)]_vars

\* C5: the pause segment of a G04 line with P = p ms lasts p/1000 s under
\* both unit settings, and 0 when P is absent or malformed.
C5_PauseIsPOver1000 ==
    \A k \in 1..Len(segments) :
        segments[k].type = "pause" =>
            LET p == FirstTok(lines[seg_line[k]], "P")
            IN segments[k].pause =
                  (IF p = {} THEN 0
                   ELSE LET t == CHOOSE t \in p : TRUE
                        IN IF t.ok THEN t.num \div 100 ELSE 0)

InchesBefore(n) ==
    LET unit == {i \in 1..(n - 1) : lines[i].cmd \in {"G20", "G21"}}
    IN /\ unit # {}
       /\ lines[CHOOSE i \in unit : \A j \in unit : j <= i].cmd = "G20"

\* The feed an F token of value f gives on line n.
FeedOfLine(f, n) == IF InchesBefore(n) THEN (f * 254) \div 10 ELSE f

C7_TimelineTerminalRule ==
    (pc = "view" /\ timeline # << >>) =>
        /\ timeline[Len(timeline)].dt = 0
        /\ \A i \in 1..(Len(timeline) - 1) : timeline[i].dt >= MIN_DT

\* C7 witness: a timeline built from a move with a negative feed, a pause
\* with a negative duration, and a step of length zero.
C7_Witness ==
    /\ pc = "view"
    /\ Len(timeline) >= 3
    /\ \E k \in 1..Len(segments) :
          segments[k].type = "move" /\ segments[k].feedrate # None
          /\ segments[k].feedrate[1] <= 0
    /\ \E k \in 1..Len(segments) :
          segments[k].type = "pause" /\ segments[k].pause < 0
    /\ \E i \in 1..(Len(timeline) - 2) :
          timeline[i].x = timeline[i + 1].x /\ timeline[i].y = timeline[i + 1].y

\* C8: the timeline's positions are the flattening of the segments in
\* program order, and its length is the sum of the moves' point counts plus
\* the number of pauses that follow at least one entry.
C8_TimelineIsFlattening ==
    pc = "view" =>
        /\ Len(timeline) = NumEntries(segments)
        /\ [i \in 1..Len(timeline) |-> <<timeline[i].x, timeline[i].y>>]
              = FlatPositions(segments)

\* C8 witness: a pause with no prior entry, then a move, then a pause.
C8_Witness ==
    /\ pc = "view"
    /\ Len(segments) = 3
    /\ segments[1].type = "pause"
    /\ segments[2].type = "move"
    /\ segments[3].type = "pause"
    /\ Len(timeline) = Len(segments[2].points) + 1

\* C9: before the terminal rule, a pause that follows at least one entry
\* adds exactly one entry, with the previous entry's position and draw flag
\* and dt = max(MIN_DT, pause); a pause with no prior entry adds nothing, so
\* a program of pauses only has an empty timeline.
C9_PauseEntry ==
    pc = "view" =>
        LET pre == Flatten(segments, << >>)
        IN /\ Len(pre) = Len(timeline)
           /\ \A k \in 1..Len(segments) :
                 segments[k].type = "pause" =>
                    LET before == NumEntries(SubSeq(segments, 1, k - 1))
                        after == NumEntries(SubSeq(segments, 1, k))
                    IN IF before = 0 THEN after = 0
                       ELSE /\ after = before + 1
                            /\ pre[after].x = timeline[before].x
                            /\ pre[after].y = timeline[before].y
                            /\ pre[after].draw = timeline[before].draw
                            /\ pre[after].dt =
                                  (IF segments[k].pause >= MIN_DT
                                   THEN segments[k].pause ELSE MIN_DT)
                            /\ (after < Len(timeline) =>
                                   timeline[after] = pre[after])
           /\ ((\A k \in 1..Len(segments) : segments[k].type = "pause")
                  => timeline = << >>)

\* C9 witness: a pause longer than MIN_DT taken with the tool switched on
\* after a move made with the tool off.
C9_Witness ==
    /\ pc = "view"
    /\ Len(segments) = 2
    /\ segments[1].type = "move" /\ ~segments[1].laser
    /\ segments[2].type = "pause" /\ segments[2].laser
    /\ segments[2].pause > MIN_DT
    /\ Len(timeline) = Len(segments[1].points) + 1

\* C10: the entries of a move segment have draw = TRUE exactly when the most
\* recent M03/M05 line before the segment's line is an M03; M03 and M05 emit
\* no segment.
C10_DrawFollowsTool ==
    pc = "view" =>
        \A k \in 1..Len(segments) :
            /\ lines[seg_line[k]].cmd \notin {"M03", "M05"}
            /\ segments[k].type = "move" =>
                  LET first == NumEntries(SubSeq(segments, 1, k - 1)) + 1
                      last == NumEntries(SubSeq(segments, 1, k))
                  IN /\ last <= Len(timeline)
                     /\ \A i \in first..last :
                           timeline[i].draw = ToolOnBefore(seg_line[k])

\* C10 witness: a move made after M03 followed by M05.
C10_Witness ==
    /\ pc = "view"
    /\ Len(lines) = 3
    /\ lines[1].cmd = "M03"
    /\ lines[2].cmd = "M05"
    /\ segments # << >>
    /\ segments[1].type = "move"
    /\ \A i \in 1..Len(timeline) : ~timeline[i].draw

-----------------------------------------------------------------------------
(* Modal feed *)

Motion == {"G00", "G01", "G02", "G03"}

\* The lines among 1..n that are motion lines carrying an F value.
FeedLines(n) ==
    {i \in 1..n : /\ lines[i].cmd \in Motion
                  /\ \E t \in FirstTok(lines[i], "F") : t.ok}

\* C11: the feed rate of every G00-G03 segment is the F value of the most
\* recent motion line carrying one, up to and including its own line; while
\* no motion line has carried an F it is the rapid default 3000 for G00 and
\* the cut default 1000 for G01/G02/G03.
C11_ModalFeed ==
    \A k \in 1..Len(segments) :
        LET n == seg_line[k]
            fl == FeedLines(n)
        IN lines[n].cmd \in Motion =>
              IF fl = {}
              THEN segments[k].feedrate
                      = Some(IF lines[n].cmd = "G00" THEN 300000 ELSE 100000)
              ELSE LET i == CHOOSE i \in fl : \A j \in fl : j <= i
                   IN \A t \in FirstTok(lines[i], "F") :
                         segments[k].feedrate = Some(FeedOfLine(t.num, i))

-----------------------------------------------------------------------------
(* Arc direction and sampling *)

\* C12: with start angle a and end angle b, the swept angle of a G02 is
\* (a - b) mod 360 degrees and that of a G03 is (b - a) mod 360 degrees,
\* taken in (0, 360]: positive, and a full turn when a = b.
C12_SweptAngle ==
    last_arc # None =>
        LET l == last_arc[1]
            m == (IF l.cw THEN l.ang1 - l.ang2 ELSE l.ang2 - l.ang1) % TURN
        IN /\ l.total_ang = (IF m = 0 THEN TURN ELSE m)
           /\ 0 < l.total_ang
           /\ l.total_ang <= TURN

\* C12 witness: an arc whose start and end angles are equal and not zero,
\* swept as a full turn.
C12_Witness ==
    /\ last_arc # None
    /\ last_arc[1].ang1 = last_arc[1].ang2
    /\ last_arc[1].ang1 # 0
    /\ last_arc[1].total_ang = TURN

-----------------------------------------------------------------------------
(* Unit invariance *)

\* The second call has read the whole of the first call's program, converted
\* to millimetres.
ConvertedRead ==
    /\ prev # None
    /\ Len(lines) = Len(prev[1].lines)
    /\ \A i \in 1..Len(lines) : lines[i] = ToMm(prev[1].lines[i])

\* C13: a program read after G20 and the same program read after G21 with
\* every X/Y/I/J value multiplied by 25.4 give the same number of segments,
\* the same number of points in each, and the same coordinates (within the
\* rounding tolerance).
C13_UnitInvariance ==
    ConvertedRead =>
        /\ Len(segments) = Len(prev[1].segments)
        /\ \A k \in 1..Len(segments) :
              LET p == prev[1].segments[k].points
                  q == segments[k].points
              IN /\ Len(q) = Len(p)
                 /\ \A i \in 1..Len(q) : Near(q[i], p[i])

-----------------------------------------------------------------------------
(* Absolute and relative moves *)

\* The program read is a move to an absolute target T, G91, and a move whose
\* X and Y are those of p minus those of T.
BackTo(p) ==
    /\ Len(lines) = 3
    /\ lines[1].cmd \in {"G00", "G01"}
    /\ lines[2].cmd = "G91"
    /\ lines[3].cmd \in {"G00", "G01"}
    /\ \A tx \in FirstTok(lines[1], "X"), ty \in FirstTok(lines[1], "Y") :
          /\ FirstTok(lines[3], "X") = {[tx EXCEPT !.num = p[1] - tx.num]}
          /\ FirstTok(lines[3], "Y") = {[ty EXCEPT !.num = p[2] - ty.num]}

\* C14: from a position P, a move in absolute mode to T followed by a move in
\* relative mode with X = P.x - T.x and Y = P.y - T.y leaves the position at P.
C14_RoundTrip ==
    (Len(segments) = 2 /\ BackTo(segments[1].points[1])) =>
        <<cur_x, cur_y>> = segments[1].points[1]

\* C14 witness: back at P = (1, -1) after a move to T = (-2, 1).
C14_Witness ==
    /\ Len(segments) = 2
    /\ BackTo(segments[1].points[1])
    /\ segments[1].points[1] = <<100, -100>>
    /\ segments[2].points[1] = <<-200, 100>>
    /\ <<cur_x, cur_y>> = <<100, -100>>

-----------------------------------------------------------------------------
(* Robustness *)

\* C15: no line aborts the parse: whatever the tokens, values that float()
\* rejects or accepts (inf, nan, 1e999 included), parse_and_build_path never
\* raises.
C15_ParseNeverRaises == pc # "raised"

\* The second call has read the whole of the first call's program, stripped
\* of its malformed tokens.
StrippedRead ==
    /\ prev # None
    /\ Len(lines) = Len(prev[1].lines)
    /\ \A i \in 1..Len(lines) : lines[i] = Strip(prev[1].lines[i])

\* C16: a program whose lines carry malformed parameter tokens leaves the
\* same state and the same segments as the program with those tokens removed,
\* also where a well-formed token with the same letter follows the malformed
\* one on the line.
C16_MalformedTokenIgnored ==
    StrippedRead =>
        /\ segments = prev[1].segments
        /\ modal = prev[1].modal

-----------------------------------------------------------------------------
(* Sampling of straight moves *)

\* The points p are the n + 1 samples at t = i / n, i = 0..n, of the straight
\* line from a to b, where n = max(1, floor(d)) for the distance d in mm.
LinearSampling(p, a, b) ==
    LET n == Len(p) - 1
        dx == b[1] - a[1]
        dy == b[2] - a[2]
        d2 == dx * dx + dy * dy
    IN /\ n >= 1
       /\ IF d2 < 100 * 100 THEN n = 1
          ELSE (100 * n) * (100 * n) <= d2 /\ d2 < (100 * (n + 1)) * (100 * (n + 1))
       /\ \A i \in 0..n :
             /\ 2 * Abs(n * (p[i + 1][1] - a[1]) - i * dx) <= n
             /\ 2 * Abs(n * (p[i + 1][2] - a[2]) - i * dy) <= n

\* C17: the segment of a G00/G01 line has exactly 1 + max(1, floor(d)) points
\* for the distance d from the current position to the target, the i-th at
\* t = i / steps; a move of length zero gives two points, both the current
\* position.
C17_LinearSampling ==
    [][(Len(segments') = Len(segments) + 1
         /\ lines'[Len(lines')].cmd \in {"G00", "G01"}) =>
          LET p == segments'[Len(segments')].points
          IN /\ LinearSampling(p, <<cur_x, cur_y>>, <<cur_x', cur_y'>>)
             /\ (<<cur_x', cur_y'>> = <<cur_x, cur_y>>
                    => p = <<<<cur_x, cur_y>>, <<cur_x, cur_y>>>>)]_vars

\* C17 witness: G01 moves of 1 mm and of length zero, then a G00 move of
\* 2 mm in three points.
C17_Witness ==
    /\ Len(segments) = 3
    /\ lines[1].cmd = "G01" /\ Len(segments[1].points) = 2
    /\ lines[2].cmd = "G01" /\ segments[2].points = <<<<0, 100>>, <<0, 100>>>>
    /\ lines[3].cmd = "G00"
    /\ segments[3].points = <<<<0, 100>>, <<100, 100>>, <<200, 100>>>>

-----------------------------------------------------------------------------
(* Sampling of arcs *)

\* The swept angle of C12, from the start and end angles of the latest arc.
Swept ==
    LET l == last_arc[1]
        m == (IF l.cw THEN l.ang1 - l.ang2 ELSE l.ang2 - l.ang1) % TURN
    IN IF m = 0 THEN TURN ELSE m

\* C18: the segment of a G02/G03 line has exactly
\* 1 + max(8, floor(64 * swept / 360 degrees)) points, hence between 9 and 65;
\* a semicircle has 32 points after its start point and a full circle 64.
C18_ArcSampling ==
    last_arc # None =>
        LET n == Len(segments[Len(segments)].points) - 1
        IN /\ n = Max(8, (64 * Swept) \div TURN)
           /\ 8 <= n /\ n <= 64
           /\ (Swept = TURN \div 2 => n = 32)
           /\ (Swept = TURN => n = 64)

-----------------------------------------------------------------------------
(* Modal commands *)

\* The value the first token of the line with the letter names, in mm, as a
\* set (empty when the line names none).
Named(line, letter) ==
    {IF units = "inches" THEN (t.num * 254) \div 10 ELSE t.num :
        t \in {u \in FirstTok(line, letter) : u.ok}}

\* C19: a modal command changes its own field only and emits no segment:
\* G20/G21 the units, G90/G91 the mode, M03/M05 the tool state, G92 the
\* position components it names, which it sets (it does not add them, in
\* relative mode either).  The modal feed stays, also when the line carries
\* an F token.
C19_ModalFrame ==
    [][lines' # lines =>
          LET line == lines'[Len(lines')]
          IN /\ line.cmd \in {"G20", "G21"} =>
                   /\ units' = (IF line.cmd = "G20" THEN "inches" ELSE "mm")
                   /\ UNCHANGED <<absolute, cur_x, cur_y, laser_on,
                                  current_feed, segments>>
             /\ line.cmd \in {"G90", "G91"} =>
                   /\ absolute' = (line.cmd = "G90")
                   /\ UNCHANGED <<units, cur_x, cur_y, laser_on,
                                  current_feed, segments>>
             /\ line.cmd \in {"M03", "M05"} =>
                   /\ laser_on' = (line.cmd = "M03")
                   /\ UNCHANGED <<units, absolute, cur_x, cur_y,
                                  current_feed, segments>>
             /\ line.cmd = "G92" =>
                   /\ \A v \in Named(line, "X") : cur_x' = v
                   /\ Named(line, "X") = {} => cur_x' = cur_x
                   /\ \A v \in Named(line, "Y") : cur_y' = v
                   /\ Named(line, "Y") = {} => cur_y' = cur_y
                   /\ UNCHANGED <<units, absolute, laser_on,
                                  current_feed, segments>>]_vars

\* C19 witness: in relative mode, away from the origin, G92 X-1 Y1 has set
\* the position to (-1, 1); the F tokens of the three modal lines have left
\* the modal feed unset.
C19_Witness ==
    /\ Len(lines) = 3
    /\ lines[1].cmd = "G91" /\ FirstTok(lines[1], "F") # {}
    /\ lines[2].cmd = "G92" /\ FirstTok(lines[2], "F") # {}
    /\ lines[3].cmd = "G92"
    /\ ~absolute
    /\ <<cur_x, cur_y>> = <<-100, 100>>
    /\ current_feed = None
    /\ segments = << >>

-----------------------------------------------------------------------------
(* One segment per motion, pause or home line *)

Emitting == {"G00", "G01", "G02", "G03", "G04", "G28"}

\* The numbers of the lines read whose command emits a segment.
EmittingLines == {i \in 1..Len(lines) : lines[i].cmd \in Emitting}

\* Segment k stems from line i: it is the k-th emitting line, and the
\* segment is of the line's kind.
StemsFrom(k, i) ==
    /\ Cardinality({j \in EmittingLines : j <= i}) = k
    /\ CASE lines[i].cmd = "G04" -> segments[k].type = "pause"
         [] lines[i].cmd \in {"G00", "G28"} ->
               segments[k].type = "move" /\ segments[k].rapid
         [] OTHER -> segments[k].type = "move" /\ ~segments[k].rapid

\* C20: after any prefix of lines the segments are exactly one per line read
\* whose command is G00, G01, G02, G03, G04 or G28, in line order (none when
\* there is no such line), and reading a further line only appends.
C20_OneSegmentPerLine ==
    /\ [](pc = "parse" =>
            /\ Len(segments) = Cardinality(EmittingLines)
            /\ \A i \in EmittingLines : \E k \in 1..Len(segments) : StemsFrom(k, i))
    /\ [][/\ Len(segments') >= Len(segments)
          /\ SubSeq(segments', 1, Len(segments)) = segments]_vars

\* C20 witness: a pause, a modal line and a move have given two segments.
C20_Witness ==
    /\ Len(lines) = 3
    /\ lines[1].cmd = "G04" /\ lines[2].cmd = "M03" /\ lines[3].cmd = "G01"
    /\ Len(segments) = 2
    /\ segments[1].type = "pause" /\ segments[2].type = "move"

-----------------------------------------------------------------------------
(* Playback *)

\* C21: on a non-empty timeline the playback index stays within
\* 0..len(timeline) - 1 under every interleaving of start, stop, reset,
\* restart, showEvent and timeouts; it changes only by +1 in a step or to 0
\* in start/reset/restart; playback never changes the timeline.
C21_IndexDiscipline ==
    /\ []((pc = "view" /\ timeline # << >>) =>
             (0 <= index /\ index <= Len(timeline) - 1))
    /\ [][pc = "view" =>
            /\ timeline' = timeline
            /\ index' # index =>
                  \/ Step /\ index' = index + 1
                  \/ (ShowEvent \/ OnRestart \/ Reset) /\ index' = 0]_vars

\* C21 witness: the playback stands at the last entry of a timeline of more
\* than two entries, after as many timeouts.
C21_Witness ==
    /\ pc = "view"
    /\ Len(timeline) > 2
    /\ index = Len(timeline) - 1
    /\ timeouts = index

\* C22: after stop(), by on_back or on its own, running is false and no timer
\* is pending; the index advances only while running is true, so not again
\* before a later start().
C22_Cancellation ==
    /\ [][(Stop \/ OnBack \/ Reset) => (~running' /\ ~timer')]_vars
    /\ [](~running => ~timer)
    /\ [][index' > index => (running /\ running')]_vars

\* C22 witness: stopped in the middle of the timeline, the window still open.
C22_Witness ==
    /\ pc = "view"
    /\ ~running /\ ~timer
    /\ 0 < index /\ index < Len(timeline) - 1
    /\ timeouts = index

\* C23: shown and left alone, with every armed timer firing, a non-empty
\* timeline is played to its last entry and the playback then stops, not
\* running and with no timer armed, after exactly len(timeline) timeouts;
\* on an empty timeline start() arms no timer and running stays false.
C23_Terminates ==
    /\ (pc = "view" /\ timeline # << >>) ~>
          (/\ index = Len(timeline) - 1
           /\ ~running /\ ~timer
           /\ timeouts = Len(timeline))
    /\ []((pc = "view" /\ timeline # << >> /\ ~running) =>
             (index = Len(timeline) - 1 /\ timeouts = Len(timeline)))
    /\ []((pc = "view" /\ timeline # << >> /\ running) =>
             (timer /\ timeouts = index))
    /\ []((pc = "view" /\ timeline = << >>) => (~running /\ ~timer))

\* C23 witness: a timeline of four entries played to its end and stopped.
C23_Witness ==
    /\ pc = "view"
    /\ Len(timeline) = 4
    /\ index = 3
    /\ ~running /\ ~timer
    /\ timeouts = 4

-----------------------------------------------------------------------------
(* Rendering *)

\* Timeline entries i and i + 1 are consecutive points of one move segment
\* made with the tool engaged.
WithinEngagedMove(i) ==
    \E k \in 1..Len(segments) :
        /\ segments[k].type = "move"
        /\ segments[k].laser
        /\ NumEntries(SubSeq(segments, 1, k - 1)) + 1 <= i
        /\ i + 1 <= NumEntries(SubSeq(segments, 1, k))

\* C24: every stroke painted joins two timeline entries that are consecutive
\* points of one tool-engaged move segment or that have the same position;
\* none joins the end of one move to the start of the next across a G92 or
\* an arc that stops short of its target.
C24_StrokesTruthful ==
    pc = "view" =>
        \A i \in Strokes :
            \/ WithinEngagedMove(i)
            \/ <<timeline[i].x, timeline[i].y>>
                  = <<timeline[i + 1].x, timeline[i + 1].y>>

====
